---- MODULE Spec2Model ----
(***************************************************************************)
(* Web3DNA: the server-side integration module (src/index.js: alert        *)
(* fan-out and the in-memory fraud-signature registry) and the browser SDK *)
(* (src/unnamed/part_000: signal collectors, IP risk evaluator,            *)
(* fingerprint composer, identity binder, DNA generator).                  *)
(*                                                                         *)
(* Each subsystem has its own specification over the shared variables:     *)
(*   SpecAlert     setupWeb3DNA + sendAlert + the webhook deliveries       *)
(*   SpecRegistry  addFraudSignature / getFraudSignatures                  *)
(*   SpecCollect   collectDeviceFingerprint (with the audio and IP parts)  *)
(*   SpecIP        checkIPRiskNoKey called on its own                      *)
(*   SpecBind      generateIdentitySignature + generateWeb3DNA             *)
(***************************************************************************)
EXTENDS Naturals, Integers, Sequences, FiniteSets, TLC

VARIABLES
    \* ---- src/index.js ----
    config,          \* the config object built by setupWeb3DNA
    clients,         \* wss.clients, in insertion order
    nextClientId,    \* identity of the next socket to connect
    calls,           \* number of sendAlert calls made so far
    lastCall,        \* what the last sendAlert call did before it returned or threw
    chatInflight,    \* chat-webhook POSTs initiated and not yet settled
    adminInflight,   \* admin-webhook POSTs initiated and not yet settled
    lastLog,         \* the last console line written by a delivery
    fraudSignatures, \* the in-memory registry
    \* ---- src/unnamed/part_000 ----
    browserFaults,   \* the capabilities of the browser that throw when probed
    composerPc,      \* position of collectDeviceFingerprint
    signals,         \* the signals object literal, as far as it has been evaluated
    composerResult,  \* what collectDeviceFingerprint resolved with
    audioPc,         \* position of getAudioFingerprint
    audioGraph,      \* the audio context and its nodes
    audioValue,      \* what getAudioFingerprint's promise settled with
    ipPc,            \* position of checkIPRiskNoKey
    ipData,          \* the parsed body of the lookup, once res.json() resolved
    ipOutcome,       \* how checkIPRiskNoKey ended
    bindPc,          \* position of the identity / DNA calls
    bindInput,       \* the 4-tuple given to generateIdentitySignature
    bindOutput,      \* its identityHash
    dnaOutput        \* the credential generateWeb3DNA returned

alertVars == <<config, clients, nextClientId, calls, lastCall, chatInflight,
               adminInflight, lastLog>>
collectVars == <<browserFaults, composerPc, signals, composerResult, audioPc, audioGraph, audioValue>>
ipVars == <<ipPc, ipData, ipOutcome>>
bindVars == <<bindPc, bindInput, bindOutput, dnaOutput>>
vars == <<alertVars, fraudSignatures, collectVars, ipVars, bindVars>>

\* ---- bounds of the model ----
MaxClients == 2      \* sockets that ever connect
MaxAlerts == 2       \* sendAlert calls
MaxSignatures == 3   \* addFraudSignature calls
MaxFieldLen == 1     \* length of an identity field, in characters
MaxFaults == 1       \* synchronous probes whose capability throws in one collection

\* A value JavaScript has no string for: undefined / an absent property.
Undefined == "<undefined>"

(***************************************************************************)
(* Hash primitives.  SHA-256 and HMAC-SHA-256 are modelled as ideal        *)
(* (collision-free) digests: the digest of a message is the message under  *)
(* a tag, so two SHA-256 digests are equal exactly when their messages are. *)
(***************************************************************************)
sha256(message) == "sha256(" \o message \o ")"

hmacSha256(secret, message) == "hmac-sha256[" \o secret \o "](" \o message \o ")"

(***************************************************************************)
(*                     src/index.js : alert fan-out                        *)
(***************************************************************************)
\* ws readyState values
CONNECTING == "CONNECTING"
OPEN == "OPEN"
CLOSING == "CLOSING"
CLOSED == "CLOSED"

ChatUrl == "https://chat.example/hooks/x"
AdminUrl == "https://admin.example/hook"

\* JavaScript truthiness of a string-or-undefined value, and a || b on such values.
JsFalse == "<false>"
JsTrue == "<true>"
Truthy(v) == v # Undefined /\ v # "" /\ v # JsFalse

OrElse(a, b) == IF Truthy(a) THEN a ELSE b

\* const config = { mattermostWebhookUrl: env || options..., adminWebhookUrl: ... }
SetupConfig(envChat, optChat, envAdmin, optAdmin) ==
    [mattermostWebhookUrl |-> OrElse(envChat, optChat),
     adminWebhookUrl |-> OrElse(envAdmin, optAdmin)]

Severities == {"info", "moderate", "critical"}

AlertEvents ==
    [severity : Severities, wallet : {Undefined, "0xabc"}, platform : {Undefined, "dex"},
     matched_tags : {<<>>, <<"rugpull", "vpn">>}]

ToUpperCase(s) ==
    CASE s = "info" -> "INFO"
      [] s = "moderate" -> "MODERATE"
      [] s = "critical" -> "CRITICAL"

RECURSIVE JoinWith(_, _)
\* Array.prototype.join on an array of strings
JoinWith(seq, sep) ==
    IF Len(seq) = 0 THEN ""
    ELSE IF Len(seq) = 1 THEN seq[1]
    ELSE seq[1] \o sep \o JoinWith(Tail(seq), sep)

\* the message sendMattermostAlert builds: the fields computed from the event
\* (risk score and DNA hash are copied into it as they are)
MattermostMessage(data) ==
    [color |-> IF data.severity = "critical" THEN "#FF0000"
               ELSE IF data.severity = "moderate" THEN "#FFA500" ELSE "#0000FF",
     severity |-> ToUpperCase(data.severity),
     wallet |-> OrElse(data.wallet, "N/A"),
     platform |-> OrElse(data.platform, "Unknown"),
     tags |-> IF Len(data.matched_tags) # 0 THEN JoinWith(data.matched_tags, ", ")
              ELSE "None"]

\* sendMattermostAlert up to its await: the number of POSTs it initiates
SendMattermostAlert(cfg, data) ==
    IF ~Truthy(cfg.mattermostWebhookUrl) THEN [posts |-> 0, body |-> <<>>]
    ELSE [posts |-> 1, body |-> <<MattermostMessage(data)>>]

\* sendAdminWebhookAlert up to its await
SendAdminWebhookAlert(cfg, data) ==
    IF ~Truthy(cfg.adminWebhookUrl) THEN [posts |-> 0, body |-> <<>>]
    ELSE [posts |-> 1, body |-> <<[event |-> "FRAUD_MATCH", data |-> data]>>]

RECURSIVE ForEachSend(_, _, _)
\* wss.clients.forEach(client => { if (client.readyState === OPEN) client.send(payload) })
\* from position i on; a send that throws ends the loop and the caller with it.
\* attempted: the sockets send was called on; sent: those whose send returned.
ForEachSend(cs, i, throwers) ==
    IF i > Len(cs) THEN [attempted |-> <<>>, sent |-> <<>>, threw |-> FALSE]
    ELSE IF cs[i].readyState = OPEN
    THEN IF cs[i].id \in throwers
         THEN [attempted |-> <<cs[i].id>>, sent |-> <<>>, threw |-> TRUE]
         ELSE LET rest == ForEachSend(cs, i + 1, throwers)
              IN  [attempted |-> <<cs[i].id>> \o rest.attempted,
                   sent |-> <<cs[i].id>> \o rest.sent,
                   threw |-> rest.threw]
    ELSE ForEachSend(cs, i + 1, throwers)

\* broadcastAlert: the live broadcast, then the two webhook calls unless the
\* broadcast threw.
BroadcastAlert(cfg, cs, data, throwers) ==
    LET ws == ForEachSend(cs, 1, throwers)
        chat == SendMattermostAlert(cfg, data)
        admin == SendAdminWebhookAlert(cfg, data)
    IN  [present |-> {cs[i].id : i \in 1..Len(cs)},
         opens |-> {cs[i].id : i \in {j \in 1..Len(cs) : cs[j].readyState = OPEN}},
         attempted |-> ws.attempted,
         sent |-> ws.sent,
         threw |-> ws.threw,
         chat |-> IF ws.threw THEN 0 ELSE chat.posts,
         chatBody |-> IF ws.threw THEN <<>> ELSE chat.body,
         admin |-> IF ws.threw THEN 0 ELSE admin.posts]

NoCall ==
    [present |-> {}, opens |-> {}, attempted |-> <<>>, sent |-> <<>>, threw |-> FALSE,
     chat |-> 0, chatBody |-> <<>>, admin |-> 0]

AlertIdle ==
    /\ clients = <<>>
    /\ nextClientId = 1
    /\ calls = 0
    /\ lastCall = NoCall
    /\ chatInflight = 0
    /\ adminInflight = 0
    /\ lastLog = ""

\* wss.on('connection', ws => ...): a socket that completed its handshake
ClientConnect ==
    /\ nextClientId <= MaxClients
    /\ clients' = Append(clients, [id |-> nextClientId, readyState |-> OPEN])
    /\ nextClientId' = nextClientId + 1
    /\ lastLog' = "Admin panel connected to /ws/dna-alerts"
    /\ UNCHANGED <<config, calls, lastCall, chatInflight, adminInflight>>
    /\ UNCHANGED <<fraudSignatures, collectVars, ipVars, bindVars>>

\* a subscriber's socket starts closing, or finishes closing
ClientClose ==
    /\ \E i \in 1..Len(clients) :
          /\ clients[i].readyState \in {OPEN, CLOSING}
          /\ clients' = [clients EXCEPT ![i].readyState =
                            IF clients[i].readyState = OPEN THEN CLOSING ELSE CLOSED]
    /\ UNCHANGED <<config, nextClientId, calls, lastCall, chatInflight, adminInflight,
                   lastLog>>
    /\ UNCHANGED <<fraudSignatures, collectVars, ipVars, bindVars>>

\* the server drops a closed socket from wss.clients
ClientRemove ==
    /\ \E i \in 1..Len(clients) :
          /\ clients[i].readyState = CLOSED
          /\ clients' = SubSeq(clients, 1, i - 1) \o SubSeq(clients, i + 1, Len(clients))
    /\ UNCHANGED <<config, nextClientId, calls, lastCall, chatInflight, adminInflight,
                   lastLog>>
    /\ UNCHANGED <<fraudSignatures, collectVars, ipVars, bindVars>>

\* sendAlert(data); throwers are the sockets whose send throws in this call
SendAlert ==
    /\ calls < MaxAlerts
    /\ \E data \in AlertEvents, throwers \in SUBSET {clients[i].id : i \in 1..Len(clients)} :
          LET r == BroadcastAlert(config, clients, data, throwers)
          IN  /\ lastCall' = r
              /\ chatInflight' = chatInflight + r.chat
              /\ adminInflight' = adminInflight + r.admin
    /\ calls' = calls + 1
    /\ UNCHANGED <<config, clients, nextClientId, lastLog>>
    /\ UNCHANGED <<fraudSignatures, collectVars, ipVars, bindVars>>

\* await axios.post(config.mattermostWebhookUrl, message) settles: logged either way
ChatPostSettle ==
    /\ chatInflight > 0
    /\ chatInflight' = chatInflight - 1
    /\ \E ok \in BOOLEAN :
          lastLog' = IF ok THEN "Alert sent to Mattermost"
                     ELSE "Error sending alert to Mattermost"
    /\ UNCHANGED <<config, clients, nextClientId, calls, lastCall, adminInflight>>
    /\ UNCHANGED <<fraudSignatures, collectVars, ipVars, bindVars>>

\* await axios.post(config.adminWebhookUrl, ...) settles: logged either way
AdminPostSettle ==
    /\ adminInflight > 0
    /\ adminInflight' = adminInflight - 1
    /\ \E ok \in BOOLEAN :
          lastLog' = IF ok THEN "Alert sent to admin webhook"
                     ELSE "Error sending alert to admin webhook"
    /\ UNCHANGED <<config, clients, nextClientId, calls, lastCall, chatInflight>>
    /\ UNCHANGED <<fraudSignatures, collectVars, ipVars, bindVars>>

(***************************************************************************)
(*                  src/index.js : fraud-signature registry                *)
(***************************************************************************)
\* the signature the registry starts with
InitialSignatures ==
    <<[fraud_id |-> "fraud-001", dna_hash |-> "7b5e11e2", auto |-> FALSE]>>

\* uuidv4().slice(0, 8): eight hexadecimal characters of a random UUID
UuidPrefixes == {"0a1b2c3d", "deadbeef"}

\* the fraud_id values a caller passes: absent, empty, or a chosen id
GivenIds == {Undefined, "", "fraud-001", "fraud-deadbeef", "case-7"}

\* fraud_id: signature.fraud_id || `fraud-${uuidv4().slice(0, 8)}`
AssignFraudId(given, uuid8) == OrElse(given, "fraud-" \o uuid8)

\* addFraudSignature(signature); auto records that the id was auto-assigned
AddFraudSignature ==
    /\ Len(fraudSignatures) < 1 + MaxSignatures
    /\ \E given \in GivenIds, uuid8 \in UuidPrefixes, hash \in {"7b5e11e2", "c0ffee00"} :
          fraudSignatures' = Append(fraudSignatures,
              [fraud_id |-> AssignFraudId(given, uuid8), dna_hash |-> hash,
               auto |-> ~Truthy(given)])
    /\ UNCHANGED <<alertVars, collectVars, ipVars, bindVars>>

\* getFraudSignatures(): a copy of the list; the registry is left as it is
GetFraudSignatures == [i \in 1..Len(fraudSignatures) |-> fraudSignatures[i]]

(***************************************************************************)
(*            src/unnamed/part_000 : IP risk evaluator                     *)
(* Strings whose characters matter (the AS descriptor) are sequences of    *)
(* one-character strings; a number is tagged so that it is no string.      *)
(***************************************************************************)
UpperCase == <<"A", "B", "C", "D", "E", "F", "G", "H", "I", "J", "K", "L", "M", "N", "O", "P", "Q", "R", "S", "T", "U", "V", "W", "X", "Y", "Z">>
LowerCase == <<"a", "b", "c", "d", "e", "f", "g", "h", "i", "j", "k", "l", "m", "n", "o", "p", "q", "r", "s", "t", "u", "v", "w", "x", "y", "z">>

ToLowerChar(c) ==
    IF \E i \in 1..Len(UpperCase) : UpperCase[i] = c
    THEN LowerCase[CHOOSE i \in 1..Len(UpperCase) : UpperCase[i] = c]
    ELSE c

\* String.prototype.toLowerCase
ToLowerCase(str) == [i \in 1..Len(str) |-> ToLowerChar(str[i])]

\* String.prototype.includes
Includes(str, sub) ==
    \E i \in 0..(Len(str) - Len(sub)) : SubSeq(str, i + 1, i + Len(sub)) = sub

\* const suspiciousProviders = [...]
suspiciousProviders == {
    <<"d", "i", "g", "i", "t", "a", "l", "o", "c", "e", "a", "n">>,
    <<"o", "v", "h">>,
    <<"c", "o", "n", "t", "a", "b", "o">>,
    <<"l", "i", "n", "o", "d", "e">>,
    <<"h", "e", "t", "z", "n", "e", "r">>,
    <<"v", "u", "l", "t", "r">>,
    <<"c", "l", "o", "u", "d", "f", "l", "a", "r", "e">>,
    <<"a", "m", "a", "z", "o", "n">>,
    <<"a", "z", "u", "r", "e">>,
    <<"g", "o", "o", "g", "l", "e">> }

\* values of data.asn: absent, a string, or a number
AsnUndefined == <<"<undefined>">>
AsnNumber == <<"<number>", "1", "4", "0", "6", "1">>
AsnValues == {
    AsnUndefined,
    <<>>,
    <<"A", "S", "-", "D", "I", "G", "I", "T", "A", "L", "O", "C", "E", "A", "N">>,
    <<"A", "S", "-", "S", "m", "a", "l", "l", "I", "S", "P">>,
    <<"A", "S", "1", "6", "5", "0", "9", " ", "A", "m", "a", "z", "o", "n", ".", "c", "o", "m">>,
    AsnNumber }

IsString(v) == v # AsnUndefined /\ v # AsnNumber

\* data.asn || ''
AsnOrEmpty(v) == IF v = AsnUndefined \/ v = <<>> THEN <<>> ELSE v

\* the parsed bodies res.json() can resolve with: null, or an object whose
\* fields may be absent; connection is <<>> when absent, else <<[isp |-> ...]>>
IPBodies ==
    {[isNull |-> TRUE, ip |-> Undefined, country |-> Undefined, connection |-> <<>>,
      proxy |-> Undefined, asn |-> AsnUndefined]}
    \cup [isNull : {FALSE}, ip : {Undefined, "203.0.113.7"}, country : {Undefined, "DE"},
          connection : {<<>>, <<[isp |-> Undefined]>>, <<[isp |-> "ACME Net"]>>},
          proxy : {Undefined, JsFalse, JsTrue}, asn : AsnValues]

TagSuspicious == "Suspicious (Possible VPN/Proxy)"
TagSafe == "Safe"
TagUnknown == "Unknown (API Failed)"

\* the object the catch block returns (country, isp and asn are not set)
DegradedResult ==
    [ip |-> "unavailable", country |-> Undefined, isp |-> Undefined, proxy |-> JsFalse,
     asn |-> AsnUndefined, suspicious |-> FALSE, tag |-> TagUnknown]

\* lines 94-106: what the try block computes from the parsed body; threw when a
\* property of null is read or toLowerCase is called on a number
EvaluateBody(data) ==
    IF data.isNull \/ ~IsString(AsnOrEmpty(data.asn))
    THEN [threw |-> TRUE, value |-> DegradedResult]
    ELSE LET asn == ToLowerCase(AsnOrEmpty(data.asn))
             match == \E name \in suspiciousProviders : Includes(asn, name)
             suspicious == Truthy(data.proxy) \/ match
         IN  [threw |-> FALSE,
              value |-> [ip |-> data.ip,
                         country |-> data.country,
                         isp |-> IF data.connection = <<>> THEN "unknown"
                                 ELSE OrElse(data.connection[1].isp, "unknown"),
                         proxy |-> OrElse(data.proxy, JsFalse),
                         asn |-> AsnOrEmpty(data.asn),
                         suspicious |-> suspicious,
                         tag |-> IF suspicious THEN TagSuspicious ELSE TagSafe]]

\* a catch block that reports safety: the tag of the failure path is the safe one
CheckIPRiskCatch_SafeOnFailure(attempt) ==
    IF attempt.threw
    THEN [kind |-> "returned", value |-> [DegradedResult EXCEPT !.tag = TagSafe]]
    ELSE [kind |-> "returned", value |-> attempt.value]

\* the try/catch of checkIPRiskNoKey: whatever threw or rejected inside the try
\* block, the function returns the degraded object
CheckIPRiskCatch(attempt) ==
    IF attempt.threw THEN [kind |-> "returned", value |-> DegradedResult]
    ELSE [kind |-> "returned", value |-> attempt.value]

NoBody ==
    [isNull |-> TRUE, ip |-> Undefined, country |-> Undefined, connection |-> <<>>,
     proxy |-> Undefined, asn |-> AsnUndefined]

IPIdle ==
    /\ ipPc = "idle"
    /\ ipData = NoBody
    /\ ipOutcome = [kind |-> "none", value |-> DegradedResult, via |-> "none"]

\* fetch('https://ip-api.io/json') is issued
IssueLookup ==
    /\ ipPc' = "fetching"
    /\ UNCHANGED <<ipData, ipOutcome>>

\* Web3DNA.checkIPRiskNoKey() called by the page itself
CallCheckIPRisk ==
    /\ ipPc = "idle"
    /\ composerPc = "idle"
    /\ IssueLookup
    /\ UNCHANGED <<alertVars, fraudSignatures, collectVars, bindVars>>

\* await fetch(...) resolves with a response
FetchResolve ==
    /\ ipPc = "fetching"
    /\ ipPc' = "parsing"
    /\ UNCHANGED <<ipData, ipOutcome>>
    /\ UNCHANGED <<alertVars, fraudSignatures, collectVars, bindVars>>

\* await fetch(...) rejects: the network failed
FetchReject ==
    /\ ipPc = "fetching"
    /\ ipPc' = "returned"
    /\ ipOutcome' = CheckIPRiskCatch([threw |-> TRUE, value |-> DegradedResult])
                        @@ [via |-> "fetch-reject"]
    /\ UNCHANGED ipData
    /\ UNCHANGED <<alertVars, fraudSignatures, collectVars, bindVars>>

\* await res.json() rejects: the body is no JSON
JsonReject ==
    /\ ipPc = "parsing"
    /\ ipPc' = "returned"
    /\ ipOutcome' = CheckIPRiskCatch([threw |-> TRUE, value |-> DegradedResult])
                        @@ [via |-> "json-reject"]
    /\ UNCHANGED ipData
    /\ UNCHANGED <<alertVars, fraudSignatures, collectVars, bindVars>>

\* await res.json() resolves with a body; the rest of the try block runs
JsonResolve ==
    /\ ipPc = "parsing"
    /\ \E data \in IPBodies :
          /\ ipData' = data
          /\ ipOutcome' = CheckIPRiskCatch(EvaluateBody(data)) @@ [via |-> "body"]
    /\ ipPc' = "returned"
    /\ UNCHANGED <<alertVars, fraudSignatures, collectVars, bindVars>>

(***************************************************************************)
(*     src/unnamed/part_000 : signal collectors and fingerprint composer   *)
(***************************************************************************)
\* the probes of the signals literal that run before the first await
SafeGetProbes ==
    {"userAgent", "language", "platform", "pixelRatio", "timezone", "doNotTrack", "plugins"}

SyncCapabilities == SafeGetProbes \cup {"screen", "webgl", "canvas"}

\* the names of the signals object, in the order of the literal
SignalNames ==
    <<"userAgent", "language", "platform", "screen", "pixelRatio", "timezone",
      "doNotTrack", "plugins", "webgl", "canvas", "audio", "ipinfo">>

\* what each capability yields when it does not throw
ProbeValue(name, dnt) ==
    CASE name = "userAgent" -> [kind |-> "string", val |-> "Mozilla/5.0"]
      [] name = "language" -> [kind |-> "string", val |-> "en-US"]
      [] name = "platform" -> [kind |-> "string", val |-> "Linux x86_64"]
      [] name = "pixelRatio" -> [kind |-> "number", val |-> "2"]
      [] name = "timezone" -> [kind |-> "string", val |-> "Europe/Berlin"]
      [] name = "doNotTrack" -> dnt
      [] name = "plugins" -> [kind |-> "string", val |-> "PDF Viewer,Chrome PDF Viewer"]

\* navigator.doNotTrack: "1" or null
DoNotTrackValues == {[kind |-> "string", val |-> "1"], [kind |-> "null", val |-> ""]}

\* function safeGet(fn, fallback = 'unavailable')
safeGet(throws, value) ==
    IF throws THEN [kind |-> "string", val |-> "unavailable"] ELSE value

\* getWebGLFingerprint()
getWebGLFingerprint(throws, glSupported) ==
    IF throws THEN "webgl_error"
    ELSE IF ~glSupported THEN "webgl_unsupported"
    ELSE "Google Inc." \o "|" \o "ANGLE (Intel)"

\* getCanvasFingerprint()
getCanvasFingerprint(throws) ==
    IF throws THEN "canvas_error" ELSE "data:image/png;base64,iVBOR"

Entry(name, e) == [name |-> name, kind |-> e.kind, val |-> e.val]

StringEntry(name, str) == [name |-> name, kind |-> "string", val |-> str]

\* the signals literal from userAgent to canvas (lines 119-128), evaluated in order;
\* `${screen.width}x${screen.height}` is not guarded: when it throws, evaluation
\* stops there and the async function rejects
SyncSignals(faults, dnt, glSupported) ==
    LET probe(n) == Entry(n, safeGet(n \in faults, ProbeValue(n, dnt)))
        head == <<probe("userAgent"), probe("language"), probe("platform")>>
    IN  IF "screen" \in faults THEN [threw |-> TRUE, entries |-> head]
        ELSE [threw |-> FALSE,
              entries |-> head \o
                  <<StringEntry("screen", "1920" \o "x" \o "1080"),
                    probe("pixelRatio"), probe("timezone"), probe("doNotTrack"),
                    probe("plugins"),
                    StringEntry("webgl", getWebGLFingerprint("webgl" \in faults, glSupported)),
                    StringEntry("canvas", getCanvasFingerprint("canvas" \in faults))>>]

\* String(value) as Array.prototype.join applies it: null and undefined give "",
\* an object gives "[object Object]"
ToStr(e) ==
    CASE e.kind = "string" -> e.val
      [] e.kind = "number" -> e.val
      [] e.kind = "null" -> ""
      [] e.kind = "object" -> "[object Object]"

\* const raw = Object.values(signals).join('|')
CanonicalJoin(entries) == JoinWith([i \in 1..Len(entries) |-> ToStr(entries[i])], "|")

\* ---- getAudioFingerprint ----
\* the first samples a processed buffer is cut to
SampleCount == 50

\* event.inputBuffer.getChannelData(0): the buffers an audioprocess event carries
AudioBuffers == {<<"0", "0", "0">>, <<"0.5", "-0.25", "0.125">>}

Min(a, b) == IF a < b THEN a ELSE b

\* .slice(0, 50)
SliceSamples(buf) == SubSeq(buf, 1, Min(SampleCount, Len(buf)))

\* sha256(out.toString())
AudioDigest(buf) == sha256(JoinWith(SliceSamples(buf), ","))

AudioError == "audio_error"

NoGraph ==
    [ctx |-> "none", connected |-> FALSE, started |-> FALSE, stopped |-> FALSE,
     handler |-> FALSE]

\* where the synchronous part of getAudioFingerprint can throw
AudioFailPoints == {"none", "ctor", "createNode", "connect", "start"}

\* lines 48-62: the graph is built and started; ctx0 is the state the browser
\* creates the context in ("suspended" until a user gesture, by autoplay policy).
\* A throw anywhere goes to the catch block, which returns 'audio_error'.
AudioSetup(failAt, ctx0) ==
    CASE failAt = "ctor" -> [graph |-> NoGraph, settled |-> TRUE]
      [] failAt = "createNode" ->
            [graph |-> [NoGraph EXCEPT !.ctx = ctx0], settled |-> TRUE]
      [] failAt = "connect" ->
            [graph |-> [NoGraph EXCEPT !.ctx = ctx0, !.connected = TRUE], settled |-> TRUE]
      [] failAt = "start" ->
            [graph |-> [NoGraph EXCEPT !.ctx = ctx0, !.connected = TRUE], settled |-> TRUE]
      [] failAt = "none" ->
            [graph |-> [ctx |-> ctx0, connected |-> TRUE, started |-> TRUE,
                        stopped |-> FALSE, handler |-> TRUE],
             settled |-> FALSE]

\* where the onaudioprocess callback can throw
CallbackFailPoints == {"none", "getChannelData", "stop", "disconnect"}

\* lines 63-70: the body of processor.onaudioprocess on one event
OnAudioProcess(graph, throwAt) ==
    CASE throwAt = "getChannelData" -> [graph |-> graph, resolved |-> FALSE]
      [] throwAt = "stop" -> [graph |-> graph, resolved |-> FALSE]
      [] throwAt = "disconnect" ->
            [graph |-> [graph EXCEPT !.stopped = TRUE], resolved |-> FALSE]
      [] throwAt = "none" ->
            [graph |-> [graph EXCEPT !.stopped = TRUE, !.connected = FALSE,
                                     !.ctx = IF @ = "closed" THEN "closed" ELSE "closing"],
             resolved |-> TRUE]

CollectIdle ==
    /\ composerPc = "idle"
    /\ signals = <<>>
    /\ composerResult = [fingerprint |-> sha256(""), raw |-> ""]
    /\ audioPc = "idle"
    /\ audioGraph = NoGraph
    /\ audioValue = ""

\* collectDeviceFingerprint() is called: the literal is evaluated up to
\* `await getAudioFingerprint()`, the call included
CollectStart ==
    /\ composerPc = "idle"
    /\ ipPc = "idle"
    /\ \E dnt \in DoNotTrackValues, glSupported \in BOOLEAN :
          LET sync == SyncSignals(browserFaults, dnt, glSupported)
          IN  /\ signals' = sync.entries
              /\ IF sync.threw
                 THEN /\ composerPc' = "rejected"
                      /\ UNCHANGED <<audioPc, audioGraph, audioValue>>
                 ELSE /\ composerPc' = "awaitAudio"
                      /\ \E failAt \in AudioFailPoints, ctx0 \in {"running", "suspended"} :
                            LET a == AudioSetup(failAt, ctx0)
                            IN  /\ audioGraph' = a.graph
                                /\ audioPc' = IF a.settled THEN "settled" ELSE "pending"
                                /\ audioValue' = IF a.settled THEN AudioError ELSE ""
    /\ UNCHANGED <<browserFaults, composerResult>>
    /\ UNCHANGED <<alertVars, fraudSignatures, ipVars, bindVars>>

\* an audioprocess event is dispatched to the handler; resolve() settles the
\* promise the first time it is called and does nothing afterwards
AudioProcess ==
    /\ audioGraph.handler
    /\ audioGraph.ctx \in {"running", "closing"}
    /\ \E throwAt \in CallbackFailPoints, buf \in AudioBuffers :
          LET r == OnAudioProcess(audioGraph, throwAt)
          IN  /\ audioGraph' = r.graph
              /\ IF r.resolved /\ audioPc = "pending"
                 THEN /\ audioPc' = "settled"
                      /\ audioValue' = AudioDigest(buf)
                 ELSE UNCHANGED <<audioPc, audioValue>>
    /\ UNCHANGED <<browserFaults, composerPc, signals, composerResult>>
    /\ UNCHANGED <<alertVars, fraudSignatures, ipVars, bindVars>>

\* context.close() completes
ContextClosed ==
    /\ audioGraph.ctx = "closing"
    /\ audioGraph' = [audioGraph EXCEPT !.ctx = "closed"]
    /\ UNCHANGED <<browserFaults, composerPc, signals, composerResult, audioPc, audioValue>>
    /\ UNCHANGED <<alertVars, fraudSignatures, ipVars, bindVars>>

\* `audio: await getAudioFingerprint()` resumes, and only then
\* `ipinfo: await checkIPRiskNoKey()` is evaluated: the lookup is issued
ComposerAfterAudio ==
    /\ composerPc = "awaitAudio"
    /\ audioPc = "settled"
    /\ signals' = Append(signals, StringEntry("audio", audioValue))
    /\ composerPc' = "awaitIP"
    /\ IssueLookup
    /\ UNCHANGED <<browserFaults, composerResult, audioPc, audioGraph, audioValue>>
    /\ UNCHANGED <<alertVars, fraudSignatures, bindVars>>

\* `await checkIPRiskNoKey()` resumes; lines 133-142
ComposerAfterIP ==
    /\ composerPc = "awaitIP"
    /\ ipPc = "returned"
    /\ IF ipOutcome.kind = "returned"
       THEN LET all == Append(signals,
                           [name |-> "ipinfo", kind |-> "object", val |-> ipOutcome.value])
                raw == CanonicalJoin(all)
            IN  /\ signals' = all
                /\ composerResult' = [fingerprint |-> sha256(raw), raw |-> raw]
                /\ composerPc' = "resolved"
       ELSE /\ composerPc' = "rejected"
            /\ UNCHANGED <<signals, composerResult>>
    /\ UNCHANGED <<browserFaults, audioPc, audioGraph, audioValue>>
    /\ UNCHANGED <<alertVars, fraudSignatures, ipVars, bindVars>>

(***************************************************************************)
(*      src/unnamed/part_000 : identity binder and DNA generator           *)
(* An identity field is kept as its sequence of characters, so that the    *)
(* separator can be looked for in it; the template literal joins the       *)
(* characters into the string that is digested.                            *)
(***************************************************************************)
Separator == "|"

FieldAlphabet == {"a", Separator}

RECURSIVE FieldsOfLen(_)
FieldsOfLen(n) ==
    IF n = 0 THEN {<<>>}
    ELSE {Append(f, c) : f \in FieldsOfLen(n - 1), c \in FieldAlphabet}

IdentityFields == UNION {FieldsOfLen(n) : n \in 0..MaxFieldLen}

IdentityTuples ==
    [name : IdentityFields, dob : IdentityFields, selfieVector : IdentityFields,
     idNumber : IdentityFields]

\* the string a field's characters spell
Str(chars) == JoinWith(chars, "")

\* the template literal with its separators left out
IdentityInput_NoSeparators(t) ==
    Str(t.name) \o Str(t.dob) \o Str(t.selfieVector) \o Str(t.idNumber)

\* const input = `${name}|${dob}|${selfieVector}|${idNumber}`
IdentityInput(t) ==
    Str(t.name) \o "|" \o Str(t.dob) \o "|" \o Str(t.selfieVector) \o "|" \o Str(t.idNumber)

\* generateIdentitySignature({ name, dob, selfieVector, idNumber }).identityHash
generateIdentitySignature(t) == sha256(IdentityInput(t))

\* generateWeb3DNA(identityHash, deviceHash, secret = '', useHmac = false)
generateWeb3DNA(identityHash, deviceHash, secret, useHmac) ==
    LET combo == identityHash \o "|" \o deviceHash \o "|" \o secret
    IN  IF useHmac THEN hmacSha256(secret, combo) ELSE sha256(combo)

NoTuple == [name |-> <<>>, dob |-> <<>>, selfieVector |-> <<>>, idNumber |-> <<>>]

BindIdle ==
    /\ bindPc = "idle"
    /\ bindInput = NoTuple
    /\ bindOutput = ""
    /\ dnaOutput = ""

\* the page calls Web3DNA.generateIdentitySignature
GenerateIdentitySignature ==
    /\ bindPc = "idle"
    /\ \E t \in IdentityTuples :
          /\ bindInput' = t
          /\ bindOutput' = generateIdentitySignature(t)
    /\ bindPc' = "bound"
    /\ UNCHANGED dnaOutput
    /\ UNCHANGED <<alertVars, fraudSignatures, collectVars, ipVars>>

\* the page calls Web3DNA.generateWeb3DNA with the identity hash it got
GenerateWeb3DNA ==
    /\ bindPc = "bound"
    /\ \E deviceHash \in {sha256("fp-1"), sha256("fp-2")}, secret \in {"", "s3cr3t"},
          useHmac \in BOOLEAN :
          dnaOutput' = generateWeb3DNA(bindOutput, deviceHash, secret, useHmac)
    /\ bindPc' = "combined"
    /\ UNCHANGED <<bindInput, bindOutput>>
    /\ UNCHANGED <<alertVars, fraudSignatures, collectVars, ipVars>>

(***************************************************************************)
(*                          Specifications                                 *)
(***************************************************************************)
ConfigValues(url) == {Undefined, url}

\* setupWeb3DNA(app, server, options), for every environment and options
InitAlert ==
    /\ \E envChat \in ConfigValues(ChatUrl), optChat \in ConfigValues(ChatUrl),
          envAdmin \in ConfigValues(AdminUrl), optAdmin \in ConfigValues(AdminUrl) :
          config = SetupConfig(envChat, optChat, envAdmin, optAdmin)
    /\ AlertIdle
    /\ fraudSignatures = InitialSignatures
    /\ browserFaults = {}
    /\ CollectIdle
    /\ IPIdle
    /\ BindIdle

\* setupWeb3DNA with nothing configured; the SDK loaded in a page
InitQuiet ==
    /\ config = SetupConfig(Undefined, Undefined, Undefined, Undefined)
    /\ AlertIdle
    /\ fraudSignatures = InitialSignatures
    /\ browserFaults = {}
    /\ CollectIdle
    /\ IPIdle
    /\ BindIdle

\* the SDK loaded in a browser some of whose capabilities throw
InitCollect ==
    /\ config = SetupConfig(Undefined, Undefined, Undefined, Undefined)
    /\ AlertIdle
    /\ fraudSignatures = InitialSignatures
    /\ browserFaults \in {f \in SUBSET SyncCapabilities : Cardinality(f) <= MaxFaults}
    /\ CollectIdle
    /\ IPIdle
    /\ BindIdle

NextAlert ==
    \/ ClientConnect
    \/ ClientClose
    \/ ClientRemove
    \/ SendAlert
    \/ ChatPostSettle
    \/ AdminPostSettle

NextRegistry == AddFraudSignature

NextIP == CallCheckIPRisk \/ FetchResolve \/ FetchReject \/ JsonResolve \/ JsonReject

NextCollect ==
    \/ CollectStart
    \/ AudioProcess
    \/ ContextClosed
    \/ ComposerAfterAudio
    \/ FetchResolve
    \/ FetchReject
    \/ JsonResolve
    \/ JsonReject
    \/ ComposerAfterIP

NextBind == GenerateIdentitySignature \/ GenerateWeb3DNA

SpecAlert == InitAlert /\ [][NextAlert]_vars

SpecRegistry == InitQuiet /\ [][NextRegistry]_vars

SpecIP == InitQuiet /\ [][NextIP]_vars

SpecCollect == InitCollect /\ [][NextCollect]_vars

\* the event loop runs every callback and continuation that is ready, and every
\* request that was issued settles
FairSpecCollect == SpecCollect /\ WF_vars(NextCollect)

SpecBind == InitQuiet /\ [][NextBind]_vars

Init == InitAlert \/ InitCollect

Next == NextAlert \/ NextRegistry \/ NextIP \/ NextCollect \/ NextBind

Spec == Init /\ [][Next]_vars

(***************************************************************************)
(*                              Claims                                     *)
(***************************************************************************)
Count(x, seq) == Cardinality({k \in 1..Len(seq) : seq[k] = x})

ChatConfigured == Truthy(config.mattermostWebhookUrl)

AdminConfigured == Truthy(config.adminWebhookUrl)

\* C1: after any sendAlert call, each configured webhook has had its POST
\* initiated and send has been called on every subscriber that was OPEN,
\* whichever other delivery failed.
C1_DeliveriesIndependent ==
    calls > 0 =>
        /\ ChatConfigured => lastCall.chat >= 1
        /\ AdminConfigured => lastCall.admin >= 1
        /\ \A id \in lastCall.opens : Count(id, lastCall.attempted) >= 1

\* C2: every sendAlert call sends exactly one chat POST if the chat URL is
\* configured and none otherwise, likewise for the admin URL, exactly one frame
\* to every subscriber that is OPEN and nothing to any other subscriber.
C2_ExactlyOnePerSink ==
    calls > 0 =>
        /\ lastCall.chat = IF ChatConfigured THEN 1 ELSE 0
        /\ lastCall.admin = IF AdminConfigured THEN 1 ELSE 0
        /\ \A id \in lastCall.present :
              Count(id, lastCall.sent) = IF id \in lastCall.opens THEN 1 ELSE 0

\* the failure sentinel of a synchronous collector
Sentinel(name) ==
    CASE name \in SafeGetProbes -> "unavailable"
      [] name = "webgl" -> "webgl_error"
      [] name = "canvas" -> "canvas_error"
      [] name = "screen" -> "unavailable"

SignalOf(name) == signals[CHOOSE i \in 1..Len(signals) : signals[i].name = name]

\* C3: whichever collector's capability throws, collectDeviceFingerprint never
\* rejects, and what it resolves with holds all twelve signal names, the
\* failing collector's entry being its sentinel.
C3_CollectorFaultsAbsorbed ==
    /\ composerPc # "rejected"
    /\ composerPc = "resolved" =>
          /\ [i \in 1..Len(signals) |-> signals[i].name] = SignalNames
          /\ \A c \in browserFaults :
                SignalOf(c).kind = "string" /\ SignalOf(c).val = Sentinel(c)

\* IPRiskResults that differ from r in exactly one field
OneFieldChanged(r) ==
    {[r EXCEPT !.ip = IF r.ip = "198.51.100.9" THEN "203.0.113.7" ELSE "198.51.100.9"],
     [r EXCEPT !.country = IF r.country = "ZZ" THEN "DE" ELSE "ZZ"],
     [r EXCEPT !.isp = IF r.isp = "Other ISP" THEN "unknown" ELSE "Other ISP"],
     [r EXCEPT !.proxy = IF r.proxy = JsTrue THEN JsFalse ELSE JsTrue],
     [r EXCEPT !.asn = IF r.asn = <<"A", "S", "1">> THEN <<>> ELSE <<"A", "S", "1">>],
     [r EXCEPT !.suspicious = ~r.suspicious],
     [r EXCEPT !.tag = IF r.tag = TagSafe THEN TagSuspicious ELSE TagSafe]}

\* C4: the canonical string that is digested tells IPRiskResults apart: a
\* collection whose other signals are the same and whose IPRiskResult differs
\* in one field has a different canonical string and a different fingerprint.
C4_CanonicalStringHoldsIPFields ==
    composerPc = "resolved" =>
        \A r \in OneFieldChanged(signals[Len(signals)].val) :
            LET other == [signals EXCEPT ![Len(signals)].val = r]
            IN  /\ CanonicalJoin(other) # composerResult.raw
                /\ sha256(CanonicalJoin(other)) # composerResult.fingerprint

\* the verdict of the IP risk evaluator on a parsed body
Verdict(data) ==
    \/ data.proxy = JsTrue
    \/ \E name \in suspiciousProviders :
          IsString(data.asn) /\ Includes(ToLowerCase(data.asn), name)

\* C5: checkIPRiskNoKey never rejects; when the fetch or the parse fails (or the
\* body is null) it returns address 'unavailable', proxy false, suspicious
\* false and the failure tag; it returns the safe tag only when a body was
\* parsed and the verdict on it is false.
C5_FailureIsDegradedNeverSafe ==
    /\ ipOutcome.kind # "rejected"
    /\ ipPc = "returned" =>
          /\ ipOutcome.kind = "returned"
          /\ (ipOutcome.via \in {"fetch-reject", "json-reject"}
                \/ (ipOutcome.via = "body" /\ ipData.isNull)) =>
                /\ ipOutcome.value.ip = "unavailable"
                /\ ipOutcome.value.proxy = JsFalse
                /\ ipOutcome.value.suspicious = FALSE
                /\ ipOutcome.value.tag = TagUnknown
          /\ ipOutcome.value.tag = TagSafe =>
                /\ ipOutcome.via = "body"
                /\ ~ipData.isNull
                /\ ~Verdict(ipData)
          /\ ipOutcome.value.tag = TagSuspicious =>
                ipOutcome.via = "body" /\ Verdict(ipData)

\* C5 witness: the body of the lookup could not be parsed and the call returned
C5_Witness_ParseFailureReturned ==
    /\ ipPc = "returned"
    /\ ipOutcome.via = "json-reject"
    /\ ipOutcome.value.tag = TagUnknown

\* C6: whenever the promise of getAudioFingerprint has settled, the context it
\* created is closed (or closing), its oscillator stopped and its nodes
\* disconnected.
C6_AudioTornDownWhenSettled ==
    audioPc = "settled" =>
        /\ audioGraph.ctx \in {"none", "closing", "closed"}
        /\ audioGraph.started => audioGraph.stopped
        /\ ~audioGraph.connected

\* C7: every invocation of getAudioFingerprint eventually settles.
C7_AudioEventuallySettles == (audioPc = "pending") ~> (audioPc = "settled")

\* C9: every stored signature has an id, and an auto-assigned id differs from
\* the id of every signature that was in the registry before it.
C9_AutoIdsNeverCollide ==
    \A i \in 1..Len(fraudSignatures) :
        /\ Truthy(fraudSignatures[i].fraud_id)
        /\ fraudSignatures[i].auto =>
              \A j \in 1..(i - 1) : fraudSignatures[j].fraud_id # fraudSignatures[i].fraud_id

\* C10: the IP lookup does not wait for the audio collector: whenever the
\* composer is suspended on an audio capture that has not settled, the lookup
\* has been issued.
C10_LookupNotBehindAudio ==
    (composerPc = "awaitAudio" /\ audioPc = "pending") => ipPc # "idle"

HasSeparator(chars) == \E i \in 1..Len(chars) : chars[i] = Separator

\* none of name, dob, selfieVector holds the separator
LeadingFieldsPlain(t) ==
    ~HasSeparator(t.name) /\ ~HasSeparator(t.dob) /\ ~HasSeparator(t.selfieVector)

\* C8 (as claimed): the identity hash of a tuple is the hash of no other tuple,
\* separator characters in the fields included.
C8_BindInjective ==
    bindPc # "idle" =>
        \A t \in IdentityTuples :
            generateIdentitySignature(t) = bindOutput <=> t = bindInput

\* C8 (amended): the same tuple gives the same identity hash, and among tuples
\* whose name, dob and selfieVector hold no separator character the identity
\* hash of a tuple is the hash of no other tuple.
C8_BindInjectiveOnPlainFields ==
    bindPc # "idle" =>
        /\ generateIdentitySignature(bindInput) = bindOutput
        /\ LeadingFieldsPlain(bindInput) =>
              \A t \in IdentityTuples :
                  LeadingFieldsPlain(t) =>
                      (generateIdentitySignature(t) = bindOutput <=> t = bindInput)

\* C8 witness: a tuple with plain leading fields, a non-empty name and an id
\* number that holds the separator has been hashed
C8_Witness_PlainTupleBound ==
    /\ bindPc = "bound"
    /\ LeadingFieldsPlain(bindInput)
    /\ bindInput.name # <<>>
    /\ HasSeparator(bindInput.idNumber)
====
